---- MODULE Spec2Model ----
(***************************************************************************)
(* Model of rule/savePostsData.js of wechat_spider: the FindProfileHandler *)
(* single-flight profile cache, the bulk path savePostsData, the deep path *)
(* getPostDetail and the upsertPosts primitive, over MongoDB-like Post and *)
(* Profile collections.                                                    *)
(*                                                                         *)
(* Values.  A field value is a string; Absent ("") stands for every falsy  *)
(* value a field can have in the JavaScript (undefined, null, '').  The    *)
(* flags isFail, viewed and imported hold "true" / "false" or Absent.      *)
(* A document is a record whose field kind is "doc"; findOne's result when  *)
(* no document matches (NoDoc), JavaScript's null (NullDoc) and a Map       *)
(* without the key (Unset) are records of the same shape and another kind.  *)
(* A Post document carries its msgBiz, msgMid and msgIdx, a Profile         *)
(* document its msgBiz, next to the other fields.                           *)
(***************************************************************************)
EXTENDS Integers, Sequences, FiniteSets, TLC

VARIABLES
    profiles,          \* Profile collection: biz -> document or NoDoc
    profileMap,        \* FindProfileHandler.profileMap: biz -> Unset, NullDoc or document
    profileWaitingMap, \* FindProfileHandler.profileWaitingMap: biz -> NoList or sequence of waiting callers
    fpc,               \* find() call of each caller: its position
    fbiz,              \* find() call of each caller: its argument
    fres,              \* find() call of each caller: the value it returned / was resolved with
    fcached,           \* ghost: profileMap entry the caller saw on entry when it was served from the cache
    reply,             \* Profile.findOne reply in flight to the leader of each caller
    nqueries,          \* ghost: number of Profile.findOne queries issued by find(), per biz
    posts,             \* Post collection: key (msgBiz, msgMid, msgIdx) -> document, for the keys that have one
    pageConfig,        \* config.rule.page: isSavePostContent, saveContentType
    dpc,               \* getPostDetail call: its position
    dlink,             \* getPostDetail call: the link argument
    dbody,             \* getPostDetail call: the fetched detail document
    did,               \* getPostDetail call: msgBiz, msgMid, msgIdx from getIdentifying
    ddoc,              \* getPostDetail call: doc, the Post read at line 188
    dprofile,          \* getPostDetail call: profile, the Profile read at line 209
    dwrites,           \* ghost: the store operations the call has applied, in order
    upc,               \* upsertPosts call: its position
    uposts,            \* upsertPosts call: the argument posts (a list, also for a single record)
    uIsArray,          \* upsertPosts call: isArray, "none" for a falsy argument
    ures,              \* upsertPosts call: the promises of posts.map, in order
    uret,              \* upsertPosts call: what it returned
    bpc,               \* savePostsData call: its position
    postList,          \* savePostsData call: the argument
    bposts,            \* savePostsData call: posts, the candidate units of lines 66-78
    bres,              \* savePostsData call: the promises of posts.map, in order
    savedPosts,        \* savePostsData call: savedPosts after the filter of line 107
    bret,              \* savePostsData call: what it returned
    pubRecords,        \* ProfilePubRecord.savePubRecords: the batches recorded, in order
    nbatches           \* ghost: number of savePostsData calls made

findVars == <<profileMap, profileWaitingMap, fpc, fbiz, fres, fcached, reply, nqueries>>
detailVars == <<dpc, dlink, dbody, did, ddoc, dprofile, dwrites>>
storeVars == <<profiles, posts, pageConfig>>
upsertVars == <<upc, uposts, uIsArray, ures, uret>>
batchVars == <<bpc, postList, bposts, bres, savedPosts, bret, pubRecords, nbatches>>
vars == <<storeVars, findVars, detailVars, upsertVars, batchVars>>

Absent == ""
\* An entry of profileWaitingMap: no list under the key, or the list.
NoList == [has |-> FALSE, list |-> <<>>]
WaitingList(l) == [has |-> TRUE, list |-> l]

\* ---------------------------------------------------------------- bounds
MaxCallers == 3

Bizs == {"b1", "b2"}
FindCallers == 1..MaxCallers

\* ------------------------------------------------- the Profile collection
ProfileFields == {"title", "wechatId", "username", "headimg"}

ProfileOfKind(k) ==
    [kind |-> k, msgBiz |-> Absent,
     title |-> Absent, wechatId |-> Absent, username |-> Absent, headimg |-> Absent]

EmptyProfile == ProfileOfKind("doc")
NoDoc == ProfileOfKind("nodoc")
NullDoc == ProfileOfKind("null")
Unset == ProfileOfKind("unset")

\* A Profile document without its msgBiz; ProfileStore gives it the one of
\* its place.
MkProfile(t, w, u, h) ==
    [kind |-> "doc", msgBiz |-> Absent,
     title |-> t, wechatId |-> w, username |-> u, headimg |-> h]

\* The Profile collection holding, for each biz, none or the given document
\* with that msgBiz.
ProfileStore(docs) ==
    [b \in DOMAIN docs |->
        IF docs[b].kind = "doc" THEN [docs[b] EXCEPT !.msgBiz = b] ELSE docs[b]]

\* Profile.findOneAndUpdate({ msgBiz }, { $set: updateObj }, { upsert: true }):
\* updateObj is a function from the fields it names to their values; the
\* document created when none matches has the msgBiz of the filter.
ProfileUpsert(store, biz, updateObj) ==
    LET old == IF store[biz] = NoDoc THEN [EmptyProfile EXCEPT !.msgBiz = biz] ELSE store[biz]
    IN  [store EXCEPT ![biz] =
            [f \in DOMAIN old |->
                IF f \in DOMAIN updateObj THEN updateObj[f] ELSE old[f]]]

\* Profile.findOne({ msgBiz: biz })
ProfileFindOne(store, biz) == store[biz]

\* ---------------------------------------------------- the Post collection
PostFields ==
    {"title", "link", "publishAt", "cover", "digest", "sourceUrl", "author",
     "copyrightStat", "wechatId", "html", "content", "viewed", "imported", "isFail"}

PostKeyFields == {"msgBiz", "msgMid", "msgIdx"}

PostOfKind(k) ==
    [kind |-> k, msgBiz |-> Absent, msgMid |-> Absent, msgIdx |-> Absent,
     title |-> Absent, link |-> Absent, publishAt |-> Absent,
     cover |-> Absent, digest |-> Absent, sourceUrl |-> Absent, author |-> Absent,
     copyrightStat |-> Absent, wechatId |-> Absent, html |-> Absent,
     content |-> Absent, viewed |-> Absent, imported |-> Absent, isFail |-> Absent]

EmptyPost == PostOfKind("doc")
NoPost == PostOfKind("nodoc")

PostKey(biz, mid, idx) == [msgBiz |-> biz, msgMid |-> mid, msgIdx |-> idx]

\* The document with the msgBiz, msgMid, msgIdx of key.
Keyed(key, doc) ==
    [doc EXCEPT !.msgBiz = key.msgBiz, !.msgMid = key.msgMid, !.msgIdx = key.msgIdx]

\* The Post collection holding the given documents, each with the msgBiz,
\* msgMid, msgIdx it is found under.
PostStore(docs) == [k \in DOMAIN docs |-> Keyed(k, docs[k])]

\* Post.findOne({ msgBiz, msgMid, msgIdx })
PostFindOne(store, key) == IF key \in DOMAIN store THEN store[key] ELSE NoPost

\* The document a $set of updateObj leaves: the named fields overwritten.
SetFields(old, updateObj) ==
    [f \in DOMAIN old |-> IF f \in DOMAIN updateObj THEN updateObj[f] ELSE old[f]]

\* Post.findOneAndUpdate(key, { $set: updateObj }, { upsert: true }): the
\* document under key is created, with the fields of the filter, when there
\* is none.
PostUpsert(store, key, updateObj) ==
    LET old == IF key \in DOMAIN store THEN store[key] ELSE Keyed(key, EmptyPost)
    IN  [k \in DOMAIN store \cup {key} |->
            IF k = key THEN SetFields(old, updateObj) ELSE store[k]]

\* The fields of rec that hold a value, as an update object:
\* `if (title) updateObj.title = title; ...`
Truthy(rec, fields) == [f \in {g \in fields : rec[g] # Absent} |-> rec[f]]

\* Two update objects merged (their fields are disjoint).
Merge(a, b) == [f \in DOMAIN a \cup DOMAIN b |-> IF f \in DOMAIN a THEN a[f] ELSE b[f]]

\* ---------------------------------------------------- FindProfileHandler
\* `this.profileMap = new Map()`
FreshProfileMap == [b \in Bizs |-> Unset]

\* `this.profileWaitingMap = new Map()`
FreshWaitingMap == [b \in Bizs |-> NoList]

\* constructor: two empty maps
HandlerNew ==
    /\ profileMap = FreshProfileMap
    /\ profileWaitingMap = FreshWaitingMap

\* A cache test that forgets the null sentinel: `if (doc) return doc;`
CacheHitDocOnly(doc) == doc # Unset /\ doc # NullDoc

\* `if (doc || doc === null) return doc;`
CacheHit(doc) == doc # Unset

\* A leader test that lets every caller through: no single flight.
IsFirstAlways(biz) == TRUE

\* `let waitingList = this.profileWaitingMap.get(biz); if (!waitingList)`
IsFirst(biz) == profileWaitingMap[biz] = NoList

\* `if (!doc) doc = null;`
NullIfMissing(doc) == IF doc = NoDoc THEN NullDoc ELSE doc

\* find(biz), synchronous part up to the first await (lines 33-42, 55-59).
FindCallStep(c, biz) ==
    /\ fpc[c] = "idle"
    /\ fbiz' = [fbiz EXCEPT ![c] = biz]
    /\ IF CacheHit(profileMap[biz])
       THEN /\ fpc' = [fpc EXCEPT ![c] = "done"]
            /\ fres' = [fres EXCEPT ![c] = profileMap[biz]]
            /\ fcached' = [fcached EXCEPT ![c] = profileMap[biz]]
            /\ UNCHANGED <<profileWaitingMap, nqueries>>
       ELSE IF IsFirst(biz)
       THEN /\ profileWaitingMap' = [profileWaitingMap EXCEPT ![biz] = WaitingList(<<>>)]
            /\ fpc' = [fpc EXCEPT ![c] = "query"]
            /\ nqueries' = [nqueries EXCEPT ![biz] = @ + 1]
            /\ UNCHANGED <<fres, fcached>>
       ELSE /\ profileWaitingMap' = [profileWaitingMap EXCEPT ![biz] =
                                         WaitingList(Append(@.list, c))]
            /\ fpc' = [fpc EXCEPT ![c] = "waiting"]
            /\ UNCHANGED <<nqueries, fres, fcached>>
    /\ UNCHANGED <<profileMap, reply>>

FindCall(c, biz) ==
    FindCallStep(c, biz) /\ UNCHANGED <<storeVars, detailVars, upsertVars, batchVars>>

\* The store answers the leader's Profile.findOne (line 42): the document is
\* read now, the leader resumes later.
FindQueryReplyStep(c) ==
    /\ fpc[c] = "query"
    /\ reply' = [reply EXCEPT ![c] = ProfileFindOne(profiles, fbiz[c])]
    /\ fpc' = [fpc EXCEPT ![c] = "replied"]
    /\ UNCHANGED <<profileMap, profileWaitingMap, fbiz, fres, fcached, nqueries>>

FindQueryReply(c) ==
    FindQueryReplyStep(c) /\ UNCHANGED <<storeVars, detailVars, upsertVars, batchVars>>

\* The store rejects the leader's Profile.findOne: the await at line 42 throws,
\* find() rejects, lines 43-53 do not run.
FindQueryFailStep(c) ==
    /\ fpc[c] = "query"
    /\ fpc' = [fpc EXCEPT ![c] = "failed"]
    /\ UNCHANGED <<profileMap, profileWaitingMap, fbiz, fres, fcached, reply, nqueries>>

FindQueryFail(c) ==
    FindQueryFailStep(c) /\ UNCHANGED <<storeVars, detailVars, upsertVars, batchVars>>

\* The leader resumes after the await (lines 42-53): store, trigger, delete.
FindLeaderResumeStep(c) ==
    /\ fpc[c] = "replied"
    /\ LET biz == fbiz[c]
           doc == NullIfMissing(reply[c])
           waitingList == profileWaitingMap[biz].list
           released == {waitingList[i] : i \in 1..Len(waitingList)}
       IN  /\ profileMap' = [profileMap EXCEPT ![biz] = doc]
           /\ fres' = [w \in FindCallers |->
                          IF w = c \/ w \in released THEN doc ELSE fres[w]]
           /\ fpc' = [w \in FindCallers |->
                          IF w = c THEN "done"
                          ELSE IF w \in released THEN "resolved" ELSE fpc[w]]
           /\ profileWaitingMap' = [profileWaitingMap EXCEPT ![biz] = NoList]
    /\ UNCHANGED <<fbiz, fcached, reply, nqueries>>

FindLeaderResume(c) ==
    FindLeaderResumeStep(c) /\ UNCHANGED <<storeVars, detailVars, upsertVars, batchVars>>

\* A follower's promise was resolved by triggerFn (line 56); its await at
\* line 55 resumes and find() returns the value.
FindFollowerReturn(c) ==
    /\ fpc[c] = "resolved"
    /\ fpc' = [fpc EXCEPT ![c] = "done"]
    /\ UNCHANGED <<profileMap, profileWaitingMap, fbiz, fres, fcached, reply, nqueries, storeVars, detailVars, upsertVars, batchVars>>

\* A getPostDetail running in the same process writes the Profile collection
\* (lines 216-220) while find() calls are in progress.
ProfileUpdates ==
    { [title |-> "n1", wechatId |-> "w1", username |-> "u1", headimg |-> "h1"] }

ConcurrentProfileUpsert ==
    /\ \E biz \in Bizs, updateObj \in ProfileUpdates :
          profiles' = ProfileUpsert(profiles, biz, updateObj)
    /\ UNCHANGED <<posts, pageConfig, findVars, detailVars, upsertVars, batchVars>>

SeedProfiles ==
    { NoDoc, MkProfile("n0", "w0", "u0", "h0") }

\* ------------------------------------------------------------- texts
\* A text (a link or a title) is a string; Tokens gives its characters as a
\* sequence of pieces, each a key and a value behind a prefix: "?", "&" or
\* the HTML entity "&amp;" in a link, "" or an entity in a title.
Tok(pre, key, val) == [pre |-> pre, key |-> key, val |-> val]

Tokens(text) ==
    CASE text = "s?__biz=b1&mid=m1&idx=1" ->
            <<Tok("?", "__biz", "b1"), Tok("&", "mid", "m1"), Tok("&", "idx", "1")>>
      [] text = "s?__biz=b1&amp;mid=m1&amp;idx=1" ->
            <<Tok("?", "__biz", "b1"), Tok("&amp;", "mid", "m1"), Tok("&amp;", "idx", "1")>>
      [] text = "s?__biz=b1&mid=m1&idx=1&sn=x" ->
            <<Tok("?", "__biz", "b1"), Tok("&", "mid", "m1"), Tok("&", "idx", "1"),
              Tok("&", "sn", "x")>>
      [] text = "s?__biz=b1&mid=m1&idx=2" ->
            <<Tok("?", "__biz", "b1"), Tok("&", "mid", "m1"), Tok("&", "idx", "2")>>
      [] text = "s?__biz=b1&amp;mid=m1&amp;idx=2" ->
            <<Tok("?", "__biz", "b1"), Tok("&amp;", "mid", "m1"), Tok("&amp;", "idx", "2")>>
      [] text = "s?__biz=b2&mid=m1&idx=1" ->
            <<Tok("?", "__biz", "b2"), Tok("&", "mid", "m1"), Tok("&", "idx", "1")>>
      [] text = "s?__biz=b1&mid=m1" ->
            <<Tok("?", "__biz", "b1"), Tok("&", "mid", "m1")>>
      [] text = "s?mid=m1&idx=1" ->
            <<Tok("?", "mid", "m1"), Tok("&", "idx", "1")>>
      [] text = "s?__biz=b1&idx=1" ->
            <<Tok("?", "__biz", "b1"), Tok("&", "idx", "1")>>
      [] text = "Q&amp;A" -> <<Tok("", "Q", ""), Tok("&amp;", "A", "")>>
      [] text = "Q&A" -> <<Tok("", "Q", ""), Tok("&", "A", "")>>
      [] text = "News" -> <<Tok("", "News", "")>>
      [] text = "" -> <<>>

Texts ==
    {"", "s?__biz=b1&mid=m1&idx=1", "s?__biz=b1&amp;mid=m1&amp;idx=1",
     "s?__biz=b1&mid=m1&idx=1&sn=x", "s?__biz=b1&mid=m1&idx=2",
     "s?__biz=b1&amp;mid=m1&amp;idx=2", "s?__biz=b2&mid=m1&idx=1",
     "s?__biz=b1&mid=m1", "s?mid=m1&idx=1", "s?__biz=b1&idx=1",
     "Q&amp;A", "Q&A", "News"}

TextOf(tokens) == CHOOSE t \in Texts : Tokens(t) = tokens

\* url.parse(link, true).query[name]: the parameters are split at "&"; the
\* parameter behind an entity "&amp;" is read under the key "amp;<key>", so
\* it is not found under name.
QueryParam(link, name) ==
    LET toks == Tokens(link)
        hits == {i \in 1..Len(toks) : toks[i].pre \in {"?", "&"} /\ toks[i].key = name}
    IN  IF hits = {} THEN Absent ELSE toks[CHOOSE i \in hits : \A j \in hits : i <= j].val

\* ContentHandler.getIdentifying(): msgBiz, msgMid, msgIdx of the link.
GetIdentifying(link) ==
    PostKey(QueryParam(link, "__biz"), QueryParam(link, "mid"), QueryParam(link, "idx"))

\* ----------------------------------------------------------- config
DefaultPageConfig == [isSavePostContent |-> FALSE, saveContentType |-> "html"]

PageConfigs ==
    [isSavePostContent : BOOLEAN, saveContentType : {"html", "text"}]

\* ------------------------------------------------------- getPostDetail
\* The getPostDetail calls in progress at a time: one when the function runs
\* alone, two when calls overlap.
DetailCalls == {"d1", "d2"}
SoloCalls == {"d1"}

NoKey == PostKey(Absent, Absent, Absent)

\* A fetched detail document: whether it holds an invalidation marker, what
\* each regular expression of lines 169-184 captures (Absent: no match), and
\* the trimmed markup of #js_content.
MkBody(inv, span, user, title, meta, head, nick, html) ==
    [invalid |-> inv, span |-> span, username |-> user, title |-> title,
     publishAt |-> IF meta THEN "ct1" ELSE Absent,
     sourceUrl |-> IF meta THEN "src1" ELSE Absent,
     cover |-> IF meta THEN "cdn1" ELSE Absent,
     digest |-> IF meta THEN "desc1" ELSE Absent,
     headimg |-> head, nickname |-> nick, html |-> html]

NoBody == MkBody(FALSE, Absent, Absent, Absent, FALSE, Absent, Absent, Absent)

\* An invalidation test that finds no marker.
IsInvalidNever(body) == FALSE

\* `body.indexOf('global_error_msg') > -1 || body.indexOf('icon_msg warn') > -1`
IsInvalid(body) == body.invalid

\* /[一-龥]/.test(wechatId)
HasChinese(w) == w = "weixinhao-zh"

\* lines 169-174: the wechatId, replaced by username when it holds Chinese
ExtractWechatId(body) ==
    IF body.span # Absent /\ HasChinese(body.span) THEN body.username ELSE body.span

\* A completeness test that also asks for the content.
PostCompleteWithHtml(doc) ==
    /\ doc.kind = "doc" /\ doc.title # Absent /\ doc.link # Absent /\ doc.wechatId # Absent
    /\ doc.html # Absent

\* line 191: `doc && doc.title && doc.link && doc.wechatId`
PostComplete(doc) ==
    doc.kind = "doc" /\ doc.title # Absent /\ doc.link # Absent /\ doc.wechatId # Absent

\* A completeness test that also asks for the title.
ProfileCompleteWithTitle(profile) ==
    /\ profile.kind = "doc" /\ profile.title # Absent
    /\ profile.wechatId # Absent /\ profile.username # Absent /\ profile.headimg # Absent

\* The completeness test with its negation lost: true of the records that
\* lack a field.
ProfileLacksField(profile) ==
    ~(/\ profile.kind = "doc"
      /\ profile.wechatId # Absent /\ profile.username # Absent /\ profile.headimg # Absent)

\* line 210: `profile && profile.wechatId && profile.username && profile.headimg`
ProfileComplete(profile) ==
    /\ profile.kind = "doc"
    /\ profile.wechatId # Absent /\ profile.username # Absent /\ profile.headimg # Absent

\* A basic-info write that also clears the failure flag.
PostBasicUpdateClearsFail(id, link, body) ==
    Merge([msgBiz |-> id.msgBiz, msgMid |-> id.msgMid, msgIdx |-> id.msgIdx, link |-> link,
           isFail |-> "false"],
          Truthy([title |-> body.title, wechatId |-> ExtractWechatId(body),
                  publishAt |-> body.publishAt, sourceUrl |-> body.sourceUrl,
                  cover |-> body.cover, digest |-> body.digest],
                 {"title", "wechatId", "publishAt", "sourceUrl", "cover", "digest"}))

\* lines 192-198: updateObj of the basic-info write
PostBasicUpdate(id, link, body) ==
    Merge([msgBiz |-> id.msgBiz, msgMid |-> id.msgMid, msgIdx |-> id.msgIdx, link |-> link],
          Truthy([title |-> body.title, wechatId |-> ExtractWechatId(body),
                  publishAt |-> body.publishAt, sourceUrl |-> body.sourceUrl,
                  cover |-> body.cover, digest |-> body.digest],
                 {"title", "wechatId", "publishAt", "sourceUrl", "cover", "digest"}))

\* lines 211-215: updateObj of the profile write
ProfileBasicUpdate(biz, body) ==
    Merge([msgBiz |-> biz],
          Truthy([title |-> body.nickname, wechatId |-> ExtractWechatId(body),
                  username |-> body.username, headimg |-> body.headimg],
                 {"title", "wechatId", "username", "headimg"}))

\* lines 229-237
ShouldSaveToDb(doc, cfg) ==
    IF doc.kind = "doc"
    THEN IF doc.html # Absent /\ cfg.saveContentType = "html" THEN TRUE
         ELSE IF doc.content # Absent /\ cfg.saveContentType = "text" THEN TRUE
         ELSE TRUE
    ELSE TRUE

\* lines 245-253: html is taken only when saveContentType is 'html'
ExtractHtml(body, cfg) == IF cfg.saveContentType = "html" THEN body.html ELSE Absent

\* lines 228, 241, 255: whether the content write is issued
ContentWriteDue(doc, body, cfg) ==
    /\ cfg.isSavePostContent
    /\ ShouldSaveToDb(doc, cfg)
    /\ ExtractHtml(body, cfg) # Absent

\* lines 256-260: updateObj of the content write
PostContentUpdate(id, body, cfg) ==
    Merge([msgBiz |-> id.msgBiz, msgMid |-> id.msgMid, msgIdx |-> id.msgIdx],
          Truthy([html |-> ExtractHtml(body, cfg), viewed |-> "true", imported |-> "false"],
                 {"html", "viewed", "imported"}))

Op(coll, kind, key, fields) == [coll |-> coll, op |-> kind, key |-> key, fields |-> fields]

DetailGoto(c, where) == dpc' = [dpc EXCEPT ![c] = where]
DetailLog(c, op) == dwrites' = [dwrites EXCEPT ![c] = Append(@, op)]

\* An identity test that asks for msgBiz only.
IdMissingBizOnly(id) == id.msgBiz = Absent

\* line 140: `!msgBiz || !msgMid || !msgIdx`
IdMissing(id) == id.msgBiz = Absent \/ id.msgMid = Absent \/ id.msgIdx = Absent

\* getPostDetail(link, body) up to its first await (lines 134-138).
DetailCall(c, link) ==
    /\ dpc[c] = "idle"
    /\ dlink' = [dlink EXCEPT ![c] = link]
    /\ DetailGoto(c, IF link = Absent THEN "done" ELSE "identify")
    /\ UNCHANGED <<dbody, did, ddoc, dprofile, dwrites, storeVars, findVars, upsertVars, batchVars>>

\* ch.getIdentifying() resolves (lines 138-145).
DetailIdentified(c) ==
    /\ dpc[c] = "identify"
    /\ LET id == GetIdentifying(dlink[c])
       IN  /\ did' = [did EXCEPT ![c] = id]
           /\ DetailGoto(c, IF IdMissing(id) THEN "done" ELSE "getbody")
    /\ UNCHANGED <<dlink, dbody, ddoc, dprofile, dwrites, storeVars, findVars, upsertVars, batchVars>>

\* After the last basic-info step: lines 225-269 up to the content write.
DetailAfterProfile(c) ==
    DetailGoto(c, IF ContentWriteDue(ddoc[c], dbody[c], pageConfig)
                    THEN "savecontent" ELSE "done")

\* ch.getBody() resolves with the document (lines 145-188).
DetailGotBody(c, body) ==
    /\ dpc[c] = "getbody"
    /\ dbody' = [dbody EXCEPT ![c] = body]
    /\ DetailGoto(c, IF IsInvalid(body) THEN "markfail" ELSE "findpost")
    /\ UNCHANGED <<dlink, did, ddoc, dprofile, dwrites, storeVars, findVars, upsertVars, batchVars>>

\* The store applies `{ isFail: true }` (lines 151-156); the call returns.
DetailMarkFail(c) ==
    /\ dpc[c] = "markfail"
    /\ posts' = PostUpsert(posts, did[c], [isFail |-> "true"])
    /\ DetailLog(c, Op("Post", "write", did[c], {"isFail"}))
    /\ DetailGoto(c, "done")
    /\ UNCHANGED <<dlink, dbody, did, ddoc, dprofile, profiles, pageConfig, findVars, upsertVars, batchVars>>

\* Post.findOne answers (line 188); lines 191-204 up to the write.
DetailFoundPost(c) ==
    /\ dpc[c] = "findpost"
    /\ LET doc == PostFindOne(posts, did[c])
       IN  /\ ddoc' = [ddoc EXCEPT ![c] = doc]
           /\ DetailGoto(c, IF PostComplete(doc) THEN "findprofile" ELSE "savebasic")
    /\ DetailLog(c, Op("Post", "read", did[c], {}))
    /\ UNCHANGED <<dlink, dbody, did, dprofile, storeVars, findVars, upsertVars, batchVars>>

\* The store applies the basic-info write (lines 200-204).
DetailSaveBasic(c) ==
    /\ dpc[c] = "savebasic"
    /\ LET updateObj == PostBasicUpdate(did[c], dlink[c], dbody[c])
       IN  /\ posts' = PostUpsert(posts, did[c], updateObj)
           /\ DetailLog(c, Op("Post", "write", did[c], DOMAIN updateObj))
    /\ DetailGoto(c, "findprofile")
    /\ UNCHANGED <<dlink, dbody, did, ddoc, dprofile, profiles, pageConfig, findVars, upsertVars, batchVars>>

\* Profile.findOne answers (line 209); lines 210-220 up to the write, or on
\* to the content section when the profile is complete.
DetailFoundProfile(c) ==
    /\ dpc[c] = "findprofile"
    /\ LET profile == ProfileFindOne(profiles, did[c].msgBiz)
       IN  /\ dprofile' = [dprofile EXCEPT ![c] = profile]
           /\ IF ProfileComplete(profile)
              THEN DetailAfterProfile(c)
              ELSE DetailGoto(c, "saveprofile")
    /\ DetailLog(c, Op("Profile", "read", PostKey(did[c].msgBiz, Absent, Absent), {}))
    /\ UNCHANGED <<dlink, dbody, did, ddoc, storeVars, findVars, upsertVars, batchVars>>

\* The store applies the profile write (lines 216-220).
DetailSaveProfile(c) ==
    /\ dpc[c] = "saveprofile"
    /\ LET updateObj == ProfileBasicUpdate(did[c].msgBiz, dbody[c])
       IN  /\ profiles' = ProfileUpsert(profiles, did[c].msgBiz, updateObj)
           /\ DetailLog(c, Op("Profile", "write", PostKey(did[c].msgBiz, Absent, Absent),
                              DOMAIN updateObj))
    /\ DetailAfterProfile(c)
    /\ UNCHANGED <<dlink, dbody, did, ddoc, dprofile, posts, pageConfig, findVars, upsertVars, batchVars>>

\* The store applies the content write (lines 261-265); the call returns.
DetailSaveContent(c) ==
    /\ dpc[c] = "savecontent"
    /\ LET updateObj == PostContentUpdate(did[c], dbody[c], pageConfig)
       IN  /\ posts' = PostUpsert(posts, did[c], updateObj)
           /\ DetailLog(c, Op("Post", "write", did[c], DOMAIN updateObj))
    /\ DetailGoto(c, "done")
    /\ UNCHANGED <<dlink, dbody, did, ddoc, dprofile, profiles, pageConfig, findVars, upsertVars, batchVars>>

\* The call has returned and getPostDetail is called again: a new call, with
\* nothing left of the one before (lines 134-138).
DetailRecall(c, link) ==
    /\ dpc[c] = "done"
    /\ dlink' = [dlink EXCEPT ![c] = link]
    /\ dbody' = [dbody EXCEPT ![c] = NoBody]
    /\ did' = [did EXCEPT ![c] = NoKey]
    /\ ddoc' = [ddoc EXCEPT ![c] = NoPost]
    /\ dprofile' = [dprofile EXCEPT ![c] = NoDoc]
    /\ dwrites' = [dwrites EXCEPT ![c] = <<>>]
    /\ DetailGoto(c, IF link = Absent THEN "done" ELSE "identify")
    /\ UNCHANGED <<storeVars, findVars, upsertVars, batchVars>>

DetailIdle ==
    /\ dpc = [c \in DetailCalls |-> "idle"]
    /\ dlink = [c \in DetailCalls |-> Absent]
    /\ dbody = [c \in DetailCalls |-> NoBody]
    /\ did = [c \in DetailCalls |-> NoKey]
    /\ ddoc = [c \in DetailCalls |-> NoPost]
    /\ dprofile = [c \in DetailCalls |-> NoDoc]
    /\ dwrites = [c \in DetailCalls |-> <<>>]

\* ---------------------------------------------------------- upsertPosts
\* A partial Post record is a function from the fields it carries to values.
Get(post, f) == IF f \in DOMAIN post THEN post[f] ELSE Absent

\* A filter that takes every record to be the first item of its message.
KeyOfFirstItem(post) == PostKey(Get(post, "msgBiz"), Get(post, "msgMid"), "1")

\* line 278, 284: `{ msgBiz, msgMid, msgIdx }` of the record
KeyOf(post) == PostKey(Get(post, "msgBiz"), Get(post, "msgMid"), Get(post, "msgIdx"))

\* line 279: `!msgBiz || !msgMid || !msgIdx`
LacksId(post) ==
    Get(post, "msgBiz") = Absent \/ Get(post, "msgMid") = Absent \/ Get(post, "msgIdx") = Absent

\* `{ $set: post }`: every field of the record, msgBiz, msgMid and msgIdx
\* included
SetOfRecord(post) == [f \in DOMAIN post \cap (PostFields \cup PostKeyFields) |-> post[f]]

\* A promise of posts.map: pending, resolved with null or with the saved
\* document, or rejected.
Promise(st, key, doc) == [state |-> st, key |-> key, doc |-> doc]

\* lines 278-279: each mapped function runs up to its await
UpsertStarted(post) ==
    IF LacksId(post) THEN Promise("null", NoKey, NoPost)
    ELSE Promise("pending", KeyOf(post), NoPost)

\* A return that hands back the list whatever the argument was.
UpsertResultAlwaysList(isArray, res) == [shape |-> "list", items |-> res]

\* lines 290-291: `if (isArray) return res; return res[0];`
UpsertResult(isArray, res) ==
    IF isArray THEN [shape |-> "list", items |-> res]
    ELSE [shape |-> "one", items |-> <<res[1]>>]

NoReturn == [shape |-> "none", items |-> <<>>]

\* upsertPosts(posts) with a falsy argument (line 273).
UpsertCallNothing ==
    /\ upc = "idle"
    /\ upc' = "done"
    /\ UNCHANGED <<uposts, uIsArray, ures, uret, storeVars, findVars, detailVars, batchVars>>

\* upsertPosts(posts) up to the await of Promise.all (lines 273-288); list
\* is the argument, or the one-element list line 275 makes of a single record.
UpsertCall(isArray, list) ==
    /\ upc = "idle"
    /\ uIsArray' = IF isArray THEN "array" ELSE "single"
    /\ uposts' = list
    /\ ures' = [i \in 1..Len(list) |-> UpsertStarted(list[i])]
    /\ upc' = "running"
    /\ UNCHANGED <<uret, storeVars, findVars, detailVars, batchVars>>

\* The store applies the findOneAndUpdate of element i (lines 283-287) and
\* answers with the document as it is after the update (`new: true`).
UpsertApply(i) ==
    /\ upc \in {"running", "rejected"}
    /\ i \in 1..Len(ures)
    /\ ures[i].state = "pending"
    /\ LET key == KeyOf(uposts[i])
           after == PostUpsert(posts, key, SetOfRecord(uposts[i]))
       IN  /\ posts' = after
           /\ ures' = [ures EXCEPT ![i] = Promise("doc", key, after[key])]
    /\ UNCHANGED <<upc, uposts, uIsArray, uret, profiles, pageConfig, findVars, detailVars, batchVars>>

\* The store rejects the findOneAndUpdate of element i: Promise.all rejects
\* and upsertPosts throws; the other updates stay in flight.
UpsertReject(i) ==
    /\ upc \in {"running", "rejected"}
    /\ i \in 1..Len(ures)
    /\ ures[i].state = "pending"
    /\ ures' = [ures EXCEPT ![i] = Promise("rejected", KeyOf(uposts[i]), NoPost)]
    /\ upc' = "rejected"
    /\ UNCHANGED <<uposts, uIsArray, uret, storeVars, findVars, detailVars, batchVars>>

\* Promise.all resolves (every promise resolved); lines 290-291.
UpsertReturn ==
    /\ upc = "running"
    /\ \A i \in 1..Len(ures) : ures[i].state \in {"null", "doc"}
    /\ uret' = UpsertResult(uIsArray = "array", ures)
    /\ upc' = "done"
    /\ UNCHANGED <<uposts, uIsArray, ures, storeVars, findVars, detailVars, batchVars>>

UpsertIdle ==
    /\ upc = "idle"
    /\ uposts = <<>>
    /\ uIsArray = "none"
    /\ ures = <<>>
    /\ uret = NoReturn

\* -------------------------------------------------------- savePostsData
\* helper.escape2Html(text): the entity "&amp;" becomes "&".
Unescape(tokens) ==
    [i \in 1..Len(tokens) |->
        [tokens[i] EXCEPT !.pre = IF @ = "&amp;" THEN "&" ELSE @]]

Escape2Html(text) == TextOf(Unescape(Tokens(text)))

\* `new Date(post.comm_msg_info.datetime * 1000)`
ToDate(datetime) ==
    CASE datetime = "1700000000" -> "2023-11-14T22:13:20Z"
      [] datetime = "1700086400" -> "2023-11-15T22:13:20Z"

\* An app message of a listing entry (app_msg_ext_info or an item of its
\* multi_app_msg_item_list).
MkAppMsg(title, link, cover, digest, source, author, stat) ==
    [title |-> title, content_url |-> link, cover |-> cover, digest |-> digest,
     source_url |-> source, author |-> author, copyright_stat |-> stat]

NoAppMsg == MkAppMsg(Absent, Absent, Absent, Absent, Absent, Absent, Absent)

\* A listing entry; hasAppMsg is whether it carries app_msg_ext_info, subs is
\* multi_app_msg_item_list (empty also when the entry has no such list).
MkEntry(has, datetime, appMsg, subs) ==
    [hasAppMsg |-> has, datetime |-> datetime, appMsg |-> appMsg, subs |-> subs]

Unit(appMsg, publishAt) == [appMsg |-> appMsg, publishAt |-> publishAt]

\* A loop body that pushes the primary message only.
EntryUnitsPrimaryOnly(post) ==
    IF ~post.hasAppMsg THEN <<>>
    ELSE <<Unit(post.appMsg, ToDate(post.datetime))>>

\* lines 68-77: the units one entry pushes
EntryUnits(post) ==
    IF ~post.hasAppMsg THEN <<>>
    ELSE LET publishAt == ToDate(post.datetime)
         IN  <<Unit(post.appMsg, publishAt)>> \o
             (IF ~(Len(post.subs) > 0) THEN <<>>
              ELSE [j \in 1..Len(post.subs) |-> Unit(post.subs[j], publishAt)])

\* lines 66-78: postList.forEach
RECURSIVE CollectUnits(_, _)
CollectUnits(list, i) ==
    IF i > Len(list) THEN <<>>
    ELSE EntryUnits(list[i]) \o CollectUnits(list, i + 1)

\* A filter that asks for the title only.
UnitDroppedNoTitle(unit) == unit.appMsg.title = Absent

\* line 86: `!(title && link)`
UnitDropped(unit) == unit.appMsg.title = Absent \/ unit.appMsg.content_url = Absent

\* A key taken from the link as listed, before escape2Html.
UnitKeyOfRawLink(unit) ==
    LET link == unit.appMsg.content_url
    IN  PostKey(QueryParam(link, "__biz"), QueryParam(link, "mid"), QueryParam(link, "idx"))

\* lines 88, 91-94: msgBiz, msgMid, msgIdx of the unescaped link
UnitKey(unit) ==
    LET link == Escape2Html(unit.appMsg.content_url)
    IN  PostKey(QueryParam(link, "__biz"), QueryParam(link, "mid"), QueryParam(link, "idx"))

\* A $set that also marks the Post as not yet viewed.
UnitUpdateUnviewed(unit) ==
    [title |-> Escape2Html(unit.appMsg.title),
     link |-> Escape2Html(unit.appMsg.content_url),
     publishAt |-> unit.publishAt,
     cover |-> unit.appMsg.cover, digest |-> unit.appMsg.digest,
     sourceUrl |-> unit.appMsg.source_url, author |-> unit.appMsg.author,
     copyrightStat |-> unit.appMsg.copyright_stat, viewed |-> "false"]

\* lines 88-98: the $set of the unit
UnitUpdate(unit) ==
    [title |-> Escape2Html(unit.appMsg.title),
     link |-> Escape2Html(unit.appMsg.content_url),
     publishAt |-> unit.publishAt,
     cover |-> unit.appMsg.cover, digest |-> unit.appMsg.digest,
     sourceUrl |-> unit.appMsg.source_url, author |-> unit.appMsg.author,
     copyrightStat |-> unit.appMsg.copyright_stat]

\* lines 84-86: each mapped function runs up to its return
UnitStarted(unit) ==
    IF UnitDropped(unit) THEN Promise("undefined", NoKey, NoPost)
    ELSE Promise("pending", UnitKey(unit), NoPost)

\* line 107: `savedPosts.filter(p => p)`
Truthies(res) == SelectSeq(res, LAMBDA p : p.state = "doc")

\* A handler that outlives the call: the map the calls before have filled.
KeptProfileMap == profileMap

\* line 81: `new FindProfileHandler()`, the profileMap of the call's handler
CallProfileMap == FreshProfileMap

\* The caller that savePostsData is of its FindProfileHandler.
BatchCaller == CHOOSE c \in FindCallers : \A d \in FindCallers : c <= d

\* savePostsData(postList) up to the await of Promise.all (lines 66-105);
\* line 81 makes a new FindProfileHandler for this call.
SaveCall(list) ==
    /\ bpc \in {"idle", "done", "failed"}
    /\ nbatches' = nbatches + 1
    /\ postList' = list
    /\ bposts' = CollectUnits(list, 1)
    /\ bres' = [i \in 1..Len(bposts') |-> UnitStarted(bposts'[i])]
    /\ savedPosts' = <<>>
    /\ bret' = <<>>
    /\ bpc' = "upserting"
    /\ profileMap' = CallProfileMap
    /\ profileWaitingMap' = FreshWaitingMap
    /\ fpc' = [fpc EXCEPT ![BatchCaller] = "idle"]
    /\ fbiz' = [fbiz EXCEPT ![BatchCaller] = Absent]
    /\ fres' = [fres EXCEPT ![BatchCaller] = Unset]
    /\ fcached' = [fcached EXCEPT ![BatchCaller] = Unset]
    /\ reply' = [reply EXCEPT ![BatchCaller] = Unset]
    /\ UNCHANGED <<nqueries, pubRecords, storeVars, detailVars, upsertVars>>

\* The store applies the findOneAndUpdate of unit i (lines 100-104) and
\* answers with the document as it is after the update (`new: true`).
SaveApply(i) ==
    /\ bpc \in {"upserting", "rejected"}
    /\ i \in 1..Len(bres)
    /\ bres[i].state = "pending"
    /\ LET key == UnitKey(bposts[i])
           after == PostUpsert(posts, key, UnitUpdate(bposts[i]))
       IN  /\ posts' = after
           /\ bres' = [bres EXCEPT ![i] = Promise("doc", key, after[key])]
    /\ UNCHANGED <<bpc, postList, bposts, savedPosts, bret, pubRecords, nbatches,
                   profiles, pageConfig, findVars, detailVars, upsertVars>>

\* The store rejects the findOneAndUpdate of unit i: Promise.all rejects, the
\* await at line 83 throws and savePostsData rejects; lines 107-127 do not
\* run.  The updates of the other units stay in flight.
SaveReject(i) ==
    /\ bpc \in {"upserting", "rejected"}
    /\ i \in 1..Len(bres)
    /\ bres[i].state = "pending"
    /\ bres' = [bres EXCEPT ![i] = Promise("rejected", UnitKey(bposts[i]), NoPost)]
    /\ bpc' = "rejected"
    /\ UNCHANGED <<postList, bposts, savedPosts, bret, pubRecords, nbatches,
                   storeVars, findVars, detailVars, upsertVars>>

\* Promise.all resolves; lines 107-110 up to the await of find, or up to the
\* await of savePubRecords when nothing was saved.
SaveSettled ==
    /\ bpc = "upserting"
    /\ \A i \in 1..Len(bres) : bres[i].state # "pending"
    /\ savedPosts' = Truthies(bres)
    /\ IF Len(savedPosts') > 0
       THEN /\ FindCallStep(BatchCaller, savedPosts'[1].key.msgBiz)
            /\ bpc' = IF fpc'[BatchCaller] = "done" THEN "recording" ELSE "finding"
       ELSE /\ bpc' = "recording"
            /\ UNCHANGED findVars
    /\ UNCHANGED <<postList, bposts, bres, bret, pubRecords, nbatches,
                   storeVars, detailVars, upsertVars>>

\* Profile.findOne of the handler answers (line 42).
SaveFindReply ==
    /\ bpc = "finding"
    /\ FindQueryReplyStep(BatchCaller)
    /\ UNCHANGED <<batchVars, storeVars, detailVars, upsertVars>>

\* Profile.findOne of the handler rejects: find throws at line 110 and
\* savePostsData rejects.
SaveFindFail ==
    /\ bpc = "finding"
    /\ FindQueryFailStep(BatchCaller)
    /\ bpc' = "failed"
    /\ UNCHANGED <<postList, bposts, bres, savedPosts, bret, pubRecords, nbatches,
                   storeVars, detailVars, upsertVars>>

\* find returns (lines 43-53), lines 111-121 up to the await of savePubRecords.
SaveFound ==
    /\ bpc = "finding"
    /\ FindLeaderResumeStep(BatchCaller)
    /\ bpc' = "recording"
    /\ UNCHANGED <<postList, bposts, bres, savedPosts, bret, pubRecords, nbatches,
                   storeVars, detailVars, upsertVars>>

\* ProfilePubRecord.savePubRecords(savedPosts) resolves (line 121).
SaveRecorded ==
    /\ bpc = "recording"
    /\ pubRecords' = Append(pubRecords, savedPosts)
    /\ bpc' = "llen"
    /\ UNCHANGED <<postList, bposts, bres, savedPosts, bret, nbatches,
                   storeVars, findVars, detailVars, upsertVars>>

\* redis('llen') resolves (lines 123-127): `return savedPosts`.
SaveReturn ==
    /\ bpc = "llen"
    /\ bret' = savedPosts
    /\ bpc' = "done"
    /\ UNCHANGED <<postList, bposts, bres, savedPosts, pubRecords, nbatches,
                   storeVars, findVars, detailVars, upsertVars>>

BatchIdle ==
    /\ bpc = "idle"
    /\ postList = <<>>
    /\ bposts = <<>>
    /\ bres = <<>>
    /\ savedPosts = <<>>
    /\ bret = <<>>
    /\ pubRecords = <<>>
    /\ nbatches = 0

FindIdle ==
    /\ HandlerNew
    /\ fpc = [c \in FindCallers |-> "idle"]
    /\ fbiz = [c \in FindCallers |-> Absent]
    /\ fres = [c \in FindCallers |-> Unset]
    /\ fcached = [c \in FindCallers |-> Unset]
    /\ reply = [c \in FindCallers |-> Unset]
    /\ nqueries = [b \in Bizs |-> 0]

InitFind ==
    /\ \E docs \in [Bizs -> SeedProfiles] : profiles = ProfileStore(docs)
    /\ posts = <<>>
    /\ pageConfig = DefaultPageConfig
    /\ FindIdle
    /\ DetailIdle
    /\ UpsertIdle
    /\ BatchIdle

NextFind ==
    \/ \E c \in FindCallers, biz \in Bizs : FindCall(c, biz)
    \/ \E c \in FindCallers : FindQueryReply(c)
    \/ \E c \in FindCallers : FindQueryFail(c)
    \/ \E c \in FindCallers : FindLeaderResume(c)
    \/ \E c \in FindCallers : FindFollowerReturn(c)
    \/ ConcurrentProfileUpsert

SpecFind == InitFind /\ [][NextFind]_vars

\* -------------------------------------------------- getPostDetail alone
\* The documents getPostDetail is given: invalid ones, and every combination
\* of captures (the four article details of lines 176-180 together).
Bodies ==
    {MkBody(TRUE, Absent, Absent, Absent, FALSE, Absent, Absent, Absent)} \cup
    {MkBody(FALSE, span, user, title, meta, head, nick, html) :
        span \in {Absent, "w1", "weixinhao-zh"}, user \in {Absent, "u1"},
        title \in {Absent, "t1"}, meta \in BOOLEAN, head \in {Absent, "h1"},
        nick \in {Absent, "n1"}, html \in {Absent, "<p>1</p>"}}

DetailLinks ==
    {"", "s?__biz=b1&mid=m1&idx=1", "s?__biz=b1&mid=m1", "s?mid=m1&idx=1", "s?__biz=b1&idx=1"}

K1 == PostKey("b1", "m1", "1")
K2 == PostKey("b1", "m1", "2")

\* The Post documents the store may hold under K1 when the call starts.
SeedPosts ==
    {[EmptyPost EXCEPT !.title = t, !.link = l, !.wechatId = w, !.html = h, !.content = ct] :
        t \in {Absent, "t0"}, l \in {Absent, "s?__biz=b1&mid=m1&idx=1&sn=x"},
        w \in {Absent, "w0"}, h \in {Absent, "<p>0</p>"}, ct \in {Absent, "text0"}}

FullPost ==
    [EmptyPost EXCEPT !.title = "t0", !.link = "s?__biz=b1&mid=m1&idx=1&sn=x",
                      !.wechatId = "w0", !.html = "<p>0</p>", !.digest = "desc0",
                      !.viewed = "true", !.imported = "true"]

\* The Profile documents the store may hold under b1 when the call starts.
SeedProfilesDetail ==
    {MkProfile(t, w, u, h) :
        t \in {Absent, "n0"}, w \in {Absent, "w0"}, u \in {Absent, "u0"}, h \in {Absent, "h0"}}

\* The stores: K2 and b2 hold a document no call is about; K1 and b1 hold
\* none or one of the seeds, the Post seeds with no Profile, the Profile
\* seeds with no Post or the full one.
InitDetail ==
    /\ \/ /\ \E p \in SeedPosts : posts = PostStore((K1 :> p) @@ (K2 :> FullPost))
          /\ profiles = ProfileStore([b \in Bizs |->
                            IF b = "b1" THEN NoDoc ELSE MkProfile("n0", "w0", "u0", "h0")])
       \/ /\ \E docs \in {(K2 :> FullPost), (K1 :> FullPost) @@ (K2 :> FullPost)} :
                posts = PostStore(docs)
          /\ \E q \in SeedProfilesDetail \cup {NoDoc} :
                profiles = ProfileStore([b \in Bizs |->
                               IF b = "b1" THEN q ELSE MkProfile("n0", "w0", "u0", "h0")])
    /\ pageConfig \in PageConfigs
    /\ FindIdle
    /\ DetailIdle
    /\ UpsertIdle
    /\ BatchIdle

NextDetail ==
    \/ \E c \in SoloCalls, link \in DetailLinks : DetailCall(c, link)
    \/ \E c \in SoloCalls : DetailIdentified(c)
    \/ \E c \in SoloCalls : dpc[c] = "getbody" /\ \E body \in Bodies : DetailGotBody(c, body)
    \/ \E c \in SoloCalls : DetailMarkFail(c)
    \/ \E c \in SoloCalls : DetailFoundPost(c)
    \/ \E c \in SoloCalls : DetailSaveBasic(c)
    \/ \E c \in SoloCalls : DetailFoundProfile(c)
    \/ \E c \in SoloCalls : DetailSaveProfile(c)
    \/ \E c \in SoloCalls : DetailSaveContent(c)

SpecDetail == InitDetail /\ [][NextDetail]_vars

\* ------------------------------------------ getPostDetail, calls overlapping
\* Two links of the article K1 (the second with one more parameter).
RaceLinks == {"s?__biz=b1&mid=m1&idx=1", "s?__biz=b1&mid=m1&idx=1&sn=x"}

\* The documents fetched: an invalidated page, and two valid fetches of the
\* page that differ in title and in the account's id line.
RaceBodies ==
    { MkBody(TRUE, Absent, Absent, Absent, FALSE, Absent, Absent, Absent),
      MkBody(FALSE, "w1", "u1", "t1", TRUE, "h1", "n1", "<p>1</p>"),
      MkBody(FALSE, "weixinhao-zh", "u2", "t2", FALSE, Absent, "n2", "<p>2</p>") }

\* K1 holds nothing, or a listed Post (title and link, no wechatId yet).
RaceSeedPosts ==
    { <<>>,
      (K1 :> [EmptyPost EXCEPT !.title = "t0", !.link = "s?__biz=b1&mid=m1&idx=1"]) }

InitDetails ==
    /\ \E docs \in RaceSeedPosts : posts = PostStore(docs)
    /\ \E q \in {NoDoc, MkProfile("n0", "w0", Absent, Absent)} :
          profiles = ProfileStore([b \in Bizs |-> IF b = "b1" THEN q ELSE NoDoc])
    /\ pageConfig \in {DefaultPageConfig, [isSavePostContent |-> TRUE, saveContentType |-> "html"]}
    /\ FindIdle
    /\ DetailIdle
    /\ UpsertIdle
    /\ BatchIdle

NextDetails ==
    \/ \E c \in DetailCalls, link \in RaceLinks : DetailCall(c, link)
    \/ \E c \in DetailCalls : DetailIdentified(c)
    \/ \E c \in DetailCalls : dpc[c] = "getbody" /\ \E body \in RaceBodies : DetailGotBody(c, body)
    \/ \E c \in DetailCalls : DetailMarkFail(c)
    \/ \E c \in DetailCalls : DetailFoundPost(c)
    \/ \E c \in DetailCalls : DetailSaveBasic(c)
    \/ \E c \in DetailCalls : DetailFoundProfile(c)
    \/ \E c \in DetailCalls : DetailSaveProfile(c)
    \/ \E c \in DetailCalls : DetailSaveContent(c)

SpecDetails == InitDetails /\ [][NextDetails]_vars

\* ---------------------------------------------------- upsertPosts alone
MaxUpsertList == 2

\* Partial records: two on K1, one on K2, one without msgIdx.
UpsertRecords ==
    { [msgBiz |-> "b1", msgMid |-> "m1", msgIdx |-> "1", title |-> "x1"],
      [msgBiz |-> "b1", msgMid |-> "m1", msgIdx |-> "1", title |-> "x3", isFail |-> "false"],
      [msgBiz |-> "b1", msgMid |-> "m1", msgIdx |-> "2", digest |-> "y2"],
      [msgBiz |-> "b1", msgMid |-> "m1", title |-> "x4"] }

UpsertLists == UNION {[1..n -> UpsertRecords] : n \in 0..MaxUpsertList}

InitUpsert ==
    /\ \E docs \in {<<>>, (K1 :> FullPost)} : posts = PostStore(docs)
    /\ profiles = [b \in Bizs |-> NoDoc]
    /\ pageConfig = DefaultPageConfig
    /\ FindIdle
    /\ DetailIdle
    /\ UpsertIdle
    /\ BatchIdle

NextUpsert ==
    \/ UpsertCallNothing
    \/ \E post \in UpsertRecords : UpsertCall(FALSE, <<post>>)
    \/ upc = "idle" /\ \E list \in UpsertLists : UpsertCall(TRUE, list)
    \/ \E i \in 1..MaxUpsertList + 1 : UpsertApply(i)
    \/ \E i \in 1..MaxUpsertList + 1 : UpsertReject(i)
    \/ UpsertReturn

SpecUpsert == InitUpsert /\ [][NextUpsert]_vars

\* -------------------------------------------------- savePostsData, a batch
MaxUnits == 3

Dates == {"1700000000", "1700086400"}

\* App messages: a plain one on K1, one listed with entities on K2, one
\* without title, one without link.
AppMsgs ==
    { MkAppMsg("News", "s?__biz=b1&mid=m1&idx=1", "cv", "dg", "src", "au", "11"),
      MkAppMsg("Q&amp;A", "s?__biz=b1&amp;mid=m1&amp;idx=2", Absent, Absent, Absent, Absent, Absent),
      MkAppMsg("", "s?__biz=b1&mid=m1&idx=1", "cv", "dg", "src", "au", "11"),
      MkAppMsg("News", "", "cv", "dg", "src", "au", "11") }

\* The entries that take n places of a listing: a primary message and n - 1
\* sub-items, or, for one place, an entry without app_msg_ext_info.
EntriesOfSize(n) ==
    {MkEntry(TRUE, d, a, subs) : d \in Dates, a \in AppMsgs, subs \in [1..(n - 1) -> AppMsgs]}
    \cup (IF n = 1 THEN {MkEntry(FALSE, "1700000000", NoAppMsg, <<>>)} ELSE {})

\* The listings of at most n places.
RECURSIVE ListsUpTo(_)
ListsUpTo(n) ==
    {<<>>} \cup
    UNION {{<<e>> \o rest : e \in EntriesOfSize(k), rest \in ListsUpTo(n - k)} : k \in 1..n}

PostLists == ListsUpTo(MaxUnits)

InitBatch ==
    /\ \E docs \in {<<>>, (K1 :> FullPost)} : posts = PostStore(docs)
    /\ profiles = ProfileStore([b \in Bizs |->
                      IF b = "b1" THEN MkProfile("n0", "w0", "u0", "h0") ELSE NoDoc])
    /\ pageConfig = DefaultPageConfig
    /\ FindIdle
    /\ DetailIdle
    /\ UpsertIdle
    /\ BatchIdle

NextBatch ==
    \/ nbatches = 0 /\ \E list \in PostLists : SaveCall(list)
    \/ \E i \in 1..MaxUnits : SaveApply(i)
    \/ SaveSettled
    \/ SaveFindReply
    \/ SaveFindFail
    \/ SaveFound
    \/ SaveRecorded
    \/ SaveReturn

SpecBatch == InitBatch /\ [][NextBatch]_vars

\* ------------------------------ savePostsData, a batch on a failing store
\* One-entry listings: a primary message and sub-items, each a plain message
\* on K1 or one listed with entities on K2.
FailAppMsgs ==
    { MkAppMsg("News", "s?__biz=b1&mid=m1&idx=1", "cv", "dg", "src", "au", "11"),
      MkAppMsg("Q&amp;A", "s?__biz=b1&amp;mid=m1&amp;idx=2", Absent, Absent, Absent, Absent, Absent) }

FailPostLists ==
    {<<MkEntry(TRUE, "1700000000", a, subs)>> :
        a \in FailAppMsgs, subs \in UNION {[1..n -> FailAppMsgs] : n \in 0..(MaxUnits - 1)}}

NextBatchFail ==
    \/ nbatches = 0 /\ \E list \in FailPostLists : SaveCall(list)
    \/ \E i \in 1..MaxUnits : SaveApply(i)
    \/ \E i \in 1..MaxUnits : SaveReject(i)
    \/ SaveSettled
    \/ SaveFindReply
    \/ SaveFindFail
    \/ SaveFound
    \/ SaveRecorded
    \/ SaveReturn

SpecBatchFail == InitBatch /\ [][NextBatchFail]_vars

\* ------------------------------------- savePostsData, batch after batch
MaxBatches == 2

\* One-entry listings of publishers b1 and b2, and the empty listing.
SmallPostLists ==
    {<<>>} \cup
    {<<MkEntry(TRUE, "1700000000", MkAppMsg(t, l, Absent, Absent, Absent, Absent, Absent), <<>>)>> :
        t \in {"", "News"}, l \in {"s?__biz=b1&mid=m1&idx=1", "s?__biz=b2&mid=m1&idx=1"}}

InitBatches ==
    /\ posts = <<>>
    /\ \E docs \in [Bizs -> SeedProfiles] : profiles = ProfileStore(docs)
    /\ pageConfig = DefaultPageConfig
    /\ FindIdle
    /\ DetailIdle
    /\ UpsertIdle
    /\ BatchIdle

NextBatches ==
    \/ nbatches < MaxBatches /\ \E list \in SmallPostLists : SaveCall(list)
    \/ SaveApply(1)
    \/ SaveSettled
    \/ SaveFindReply
    \/ SaveFindFail
    \/ SaveFound
    \/ SaveRecorded
    \/ SaveReturn

SpecBatches == InitBatches /\ [][NextBatches]_vars

\* ------------------------- ingestion: savePostsData and getPostDetail
\* Listings of the article K1, alone or with a sub-item on K2.
IngestPostLists ==
    { <<MkEntry(TRUE, "1700000000",
                MkAppMsg("News", "s?__biz=b1&mid=m1&idx=1", "cv", "dg", "src", "au", "11"), subs)>> :
        subs \in { <<>>,
                   <<MkAppMsg("Q&amp;A", "s?__biz=b1&amp;mid=m1&amp;idx=2",
                              Absent, Absent, Absent, Absent, Absent)>> } }

\* K1 holds nothing, or a listed Post that a fetch has marked as failed.
IngestSeedPosts ==
    { <<>>,
      (K1 :> [EmptyPost EXCEPT !.title = "t0", !.link = "s?__biz=b1&mid=m1&idx=1",
                               !.isFail = "true"]) }

IngestLinks == {"s?__biz=b1&mid=m1&idx=1"}

InitIngest ==
    /\ \E docs \in IngestSeedPosts : posts = PostStore(docs)
    /\ profiles = [b \in Bizs |-> NoDoc]
    /\ pageConfig \in {DefaultPageConfig, [isSavePostContent |-> TRUE, saveContentType |-> "html"]}
    /\ FindIdle
    /\ DetailIdle
    /\ UpsertIdle
    /\ BatchIdle

NextIngest ==
    \/ \E c \in SoloCalls, link \in IngestLinks : DetailCall(c, link)
    \/ \E c \in SoloCalls, link \in IngestLinks : DetailRecall(c, link)
    \/ \E c \in SoloCalls : DetailIdentified(c)
    \/ \E c \in SoloCalls : dpc[c] = "getbody" /\ \E body \in RaceBodies : DetailGotBody(c, body)
    \/ \E c \in SoloCalls : DetailMarkFail(c)
    \/ \E c \in SoloCalls : DetailFoundPost(c)
    \/ \E c \in SoloCalls : DetailSaveBasic(c)
    \/ \E c \in SoloCalls : DetailFoundProfile(c)
    \/ \E c \in SoloCalls : DetailSaveProfile(c)
    \/ \E c \in SoloCalls : DetailSaveContent(c)
    \/ nbatches < MaxBatches /\ \E list \in IngestPostLists : SaveCall(list)
    \/ \E i \in 1..MaxUnits : SaveApply(i)
    \/ SaveSettled
    \/ SaveFindReply
    \/ SaveFindFail
    \/ SaveFound
    \/ SaveRecorded
    \/ SaveReturn

SpecIngest == InitIngest /\ [][NextIngest]_vars

\* ------------- savePostsData, getPostDetail and upsertPosts interleaved
\* The documents fetched: an invalidated page and a valid one.
MixedBodies ==
    { MkBody(TRUE, Absent, Absent, Absent, FALSE, Absent, Absent, Absent),
      MkBody(FALSE, "w1", "u1", "t1", TRUE, "h1", "n1", "<p>1</p>") }

\* Partial records for upsertPosts: one on K1, one on K2.
MixedRecords ==
    { [msgBiz |-> "b1", msgMid |-> "m1", msgIdx |-> "1", title |-> "x1"],
      [msgBiz |-> "b1", msgMid |-> "m1", msgIdx |-> "2", digest |-> "y2"] }

MixedLists == UNION {[1..n -> MixedRecords] : n \in 0..MaxUpsertList}

\* A listing of the article K1 with a sub-item on K2.
MixedPostLists == {list \in IngestPostLists : Len(list[1].subs) = 1}

InitMixed ==
    /\ \E docs \in {<<>>, (K1 :> FullPost)} : posts = PostStore(docs)
    /\ profiles = ProfileStore([b \in Bizs |->
                      IF b = "b2" THEN MkProfile("n0", "w0", "u0", "h0") ELSE NoDoc])
    /\ pageConfig = [isSavePostContent |-> TRUE, saveContentType |-> "html"]
    /\ FindIdle
    /\ DetailIdle
    /\ UpsertIdle
    /\ BatchIdle

NextMixed ==
    \/ \E c \in SoloCalls, link \in IngestLinks : DetailCall(c, link)
    \/ \E c \in SoloCalls : DetailIdentified(c)
    \/ \E c \in SoloCalls : dpc[c] = "getbody" /\ \E body \in MixedBodies : DetailGotBody(c, body)
    \/ \E c \in SoloCalls : DetailMarkFail(c)
    \/ \E c \in SoloCalls : DetailFoundPost(c)
    \/ \E c \in SoloCalls : DetailSaveBasic(c)
    \/ \E c \in SoloCalls : DetailFoundProfile(c)
    \/ \E c \in SoloCalls : DetailSaveProfile(c)
    \/ \E c \in SoloCalls : DetailSaveContent(c)
    \/ nbatches = 0 /\ \E list \in MixedPostLists : SaveCall(list)
    \/ \E i \in 1..MaxUnits : SaveApply(i)
    \/ \E i \in 1..MaxUnits : SaveReject(i)
    \/ SaveSettled
    \/ SaveFindReply
    \/ SaveFindFail
    \/ SaveFound
    \/ SaveRecorded
    \/ SaveReturn
    \/ UpsertCallNothing
    \/ \E post \in MixedRecords : UpsertCall(FALSE, <<post>>)
    \/ upc = "idle" /\ \E list \in MixedLists : UpsertCall(TRUE, list)
    \/ \E i \in 1..MaxUpsertList + 1 : UpsertApply(i)
    \/ \E i \in 1..MaxUpsertList + 1 : UpsertReject(i)
    \/ UpsertReturn

SpecMixed == InitMixed /\ [][NextMixed]_vars

\* ------------------------------------------------------------ claims, find
Started(c, biz) == fpc[c] # "idle" /\ fbiz[c] = biz
Returned(c, biz) == fpc[c] \in {"resolved", "done"} /\ fbiz[c] = biz

\* C1: on one handler, the find(biz) calls made on a biz, however they
\* interleave with the backing query, issue exactly one Profile.findOne for
\* that biz, and every call that has a result has the same result.
C1_SingleFlight ==
    \A biz \in Bizs :
        /\ nqueries[biz] <= 1
        /\ (\E c \in FindCallers : Started(c, biz)) => nqueries[biz] = 1
        /\ \A c, d \in FindCallers :
               Returned(c, biz) /\ Returned(d, biz) => fres[c] = fres[d]

\* Three calls on b1, none served from the cache (all started while b1 was
\* unresolved), all returned, and the store no longer holds what they got.
C1_Witness ==
    /\ \A c \in FindCallers : fpc[c] = "done" /\ fbiz[c] = "b1" /\ fcached[c] = Unset
    /\ NullIfMissing(profiles["b1"]) # fres[1]

\* C2: once a find(biz) has completed, with a document or with null, the
\* profileMap entry of biz never changes, and every find(biz) that starts
\* later returns that result at once, without a backing query.
C2_ResolvedIsFinal ==
    [][\A biz \in Bizs :
          /\ profileMap[biz] # Unset => profileMap'[biz] = profileMap[biz]
          /\ \A d \in FindCallers :
                fpc[d] = "done" /\ fbiz[d] = biz =>
                   \A c \in FindCallers :
                      fpc[c] = "idle" /\ fpc'[c] # "idle" /\ fbiz'[c] = biz =>
                         /\ fpc'[c] = "done"
                         /\ fres'[c] = fres[d]
                         /\ nqueries' = nqueries]_vars

\* A call answered from the cache with the null sentinel although the store
\* now holds a document for the biz.
C2_Witness ==
    \E c \in FindCallers :
        /\ fpc[c] = "done"
        /\ fcached[c] = NullDoc
        /\ fres[c] = NullDoc
        /\ profiles[fbiz[c]].kind = "doc"

\* ------------------------------------------------- claims, getPostDetail
\* The fields of the Post under key that differ between two stores.
PostDiff(before, after, key) ==
    {f \in PostFields : PostFindOne(before, key)[f] # PostFindOne(after, key)[f]}

OtherPostsSame(before, after, key) ==
    /\ DOMAIN after = DOMAIN before \cup {key}
    /\ \A k \in DOMAIN before : k # key => after[k] = before[k]

\* The existing record has title, link and wechatId.
Filled(doc) ==
    doc.kind = "doc" /\ doc.title # Absent /\ doc.link # Absent /\ doc.wechatId # Absent

ProfileFilled(profile) ==
    /\ profile.kind = "doc"
    /\ profile.wechatId # Absent /\ profile.username # Absent /\ profile.headimg # Absent

\* C4: every step getPostDetail takes once it holds a document with an
\* invalidation marker is the one write of isFail = true on the Post of the
\* resolved key: no other field of it and no other Post changes, the
\* Profile collection is neither read nor written, and the call returns.
C4_InvalidOnlyMarksFail ==
    [][\A c \in DetailCalls :
          dbody[c].invalid /\ dpc[c] # "done" =>
             /\ dpc'[c] = "done"
             /\ PostDiff(posts, posts', did[c]) \subseteq {"isFail"}
             /\ PostFindOne(posts', did[c]).kind = "doc"
             /\ posts'[did[c]].isFail = "true"
             /\ OtherPostsSame(posts, posts', did[c])
             /\ profiles' = profiles
             /\ dwrites'[c] = <<Op("Post", "write", did[c], {"isFail"})>>]_vars

\* An invalid document was processed for a Post that had a title and markup:
\* they are still there, next to isFail.
C4_Witness ==
    \E c \in DetailCalls :
        /\ dpc[c] = "done" /\ dbody[c].invalid
        /\ posts[K1].isFail = "true"
        /\ posts[K1].title = "t0" /\ posts[K1].html = "<p>0</p>"

\* C5: no step of a getPostDetail running alone changes title, link or
\* wechatId of a Post that has all three.
C5_CompleteKeepsIdentity ==
    [][\A k \in DOMAIN posts :
          Filled(posts[k]) =>
             /\ k \in DOMAIN posts'
             /\ posts'[k].title = posts[k].title
             /\ posts'[k].link = posts[k].link
             /\ posts'[k].wechatId = posts[k].wechatId]_vars

\* The call found a complete Post, the document carried another title and
\* wechatId, the content write went through, and the title is the old one.
C5_Witness ==
    \E c \in DetailCalls :
        /\ dpc[c] = "done"
        /\ Filled(ddoc[c])
        /\ dbody[c].title = "t1" /\ dbody[c].span = "w1"
        /\ posts[K1].html = "<p>1</p>"
        /\ posts[K1].title = "t0" /\ posts[K1].wechatId = "w0"

BasicPhase(c) == dpc[c] \in {"findpost", "savebasic", "findprofile", "saveprofile"}

\* C6 as stated: the basic-info merge changes no field of the Post or of the
\* Profile that has a value in the existing record.
C6_Original ==
    [][\A c \in DetailCalls :
          BasicPhase(c) =>
             /\ \A f \in PostFields :
                   PostFindOne(posts, did[c])[f] # Absent =>
                      PostFindOne(posts', did[c])[f] = PostFindOne(posts, did[c])[f]
             /\ \A f \in ProfileFields :
                   profiles[did[c].msgBiz][f] # Absent =>
                      profiles'[did[c].msgBiz][f] = profiles[did[c].msgBiz][f]]_vars

\* C6 amended: the basic-info merge changes the Post only when the existing
\* record is missing or lacks one of title, link, wechatId, and the Profile
\* only when it is missing or lacks one of wechatId, username, headimg; it
\* then sets link and every field the document yields, whether or not the
\* record had a value there, and nothing else.
C6_MergeWhenIncomplete ==
    [][\A c \in DetailCalls :
          BasicPhase(c) =>
             /\ posts' # posts =>
                   /\ ~Filled(PostFindOne(posts, did[c]))
                   /\ OtherPostsSame(posts, posts', did[c])
                   /\ \A f \in PostDiff(posts, posts', did[c]) :
                         /\ f \in {"title", "link", "wechatId", "publishAt", "sourceUrl",
                                   "cover", "digest"}
                         /\ posts'[did[c]][f] =
                               IF f = "link" THEN dlink[c]
                               ELSE IF f = "wechatId" THEN ExtractWechatId(dbody[c])
                               ELSE dbody[c][f]
             /\ profiles' # profiles =>
                   /\ ~ProfileFilled(profiles[did[c].msgBiz])
                   /\ \A b \in Bizs : b # did[c].msgBiz => profiles'[b] = profiles[b]
                   /\ \A f \in ProfileFields :
                         profiles'[did[c].msgBiz][f] # profiles[did[c].msgBiz][f] =>
                            profiles'[did[c].msgBiz][f] =
                               IF f = "title" THEN dbody[c].nickname
                               ELSE IF f = "wechatId" THEN ExtractWechatId(dbody[c])
                               ELSE dbody[c][f]]_vars

\* The Post had a title but no wechatId: the merge replaced the title.
C6_Witness ==
    \E c \in DetailCalls :
        /\ dpc[c] = "done"
        /\ ddoc[c].title = "t0" /\ ddoc[c].wechatId = Absent
        /\ posts[K1].title = "t1"

\* The existing record holds the content of the configured type.
HoldsContent(doc, cfg) ==
    /\ doc.kind = "doc"
    /\ \/ doc.html # Absent /\ cfg.saveContentType = "html"
       \/ doc.content # Absent /\ cfg.saveContentType = "text"

\* C7: with isSavePostContent on, a call that found a Post holding the
\* content of the configured type leaves its html, viewed and imported as
\* they were.
C7_ContentWriteSkipped ==
    \A c \in DetailCalls :
        /\ dpc[c] = "done"
        /\ pageConfig.isSavePostContent
        /\ HoldsContent(ddoc[c], pageConfig)
        => /\ posts[did[c]].html = ddoc[c].html
           /\ posts[did[c]].viewed = ddoc[c].viewed
           /\ posts[did[c]].imported = ddoc[c].imported

\* ---------------------------------------------------- claims, upsertPosts
\* C8: upsertPosts given a single record with (msgBiz, msgMid, msgIdx)
\* returns one saved document, not a list, under that key; given a list of
\* n such records it returns a list of n saved documents, the i-th under the
\* key of the i-th record.
C8_CardinalityAndPosition ==
    upc = "done" /\ uIsArray # "none" /\ (\A i \in 1..Len(uposts) : ~LacksId(uposts[i])) =>
       /\ uret.shape = (IF uIsArray = "array" THEN "list" ELSE "one")
       /\ Len(uret.items) = Len(uposts)
       /\ \A i \in 1..Len(uposts) :
             /\ uret.items[i].state = "doc"
             /\ uret.items[i].doc.kind = "doc"
             /\ uret.items[i].key = KeyOf(uposts[i])

\* A single record came back as one document, and a list of two records on
\* two keys came back as a list of two.
C8_WitnessSingle ==
    /\ upc = "done" /\ uIsArray = "single"
    /\ uret.shape = "one" /\ uret.items[1].key = K1 /\ uret.items[1].doc.title = "x1"

C8_Witness ==
    /\ upc = "done" /\ uIsArray = "array" /\ Len(uposts) = 2
    /\ uret.items[1].key = K2 /\ uret.items[2].key = K1
    /\ uret.items[1].doc.digest = "y2"

Contribution(post, primaryNeeded) ==
    IF primaryNeeded /\ ~post.hasAppMsg THEN 0 ELSE Len(post.subs) + 1

RECURSIVE UnitsBefore(_, _, _)
UnitsBefore(list, e, primaryNeeded) ==
    IF e <= 1 THEN 0
    ELSE UnitsBefore(list, e - 1, primaryNeeded) + Contribution(list[e - 1], primaryNeeded)

\* The units of entry e are at their place in posts: the primary message,
\* then the sub-items in order, each with the entry's publish time.
EntryInPlace(list, e, primaryNeeded) ==
    LET off == UnitsBefore(list, e, primaryNeeded)
        post == list[e]
    IN  /\ bposts[off + 1] = Unit(post.appMsg, ToDate(post.datetime))
        /\ \A j \in 1..Len(post.subs) :
               bposts[off + 1 + j] = Unit(post.subs[j], ToDate(post.datetime))

\* C9 as stated: every listing entry with k sub-items contributes k + 1
\* units, the primary message and then the sub-items, all with the entry's
\* publish time.
C9_Original ==
    bpc # "idle" =>
       /\ Len(bposts) = UnitsBefore(postList, Len(postList) + 1, FALSE)
       /\ \A e \in 1..Len(postList) : EntryInPlace(postList, e, FALSE)

\* C9 amended: every listing entry that has a primary message
\* (app_msg_ext_info) and k sub-items contributes k + 1 units, the primary
\* message and then the sub-items, all with the entry's publish time; an
\* entry without a primary message contributes none.
C9_UnitsPerEntry ==
    bpc # "idle" =>
       /\ Len(bposts) = UnitsBefore(postList, Len(postList) + 1, TRUE)
       /\ \A e \in 1..Len(postList) :
             postList[e].hasAppMsg => EntryInPlace(postList, e, TRUE)

\* An entry without a primary message, then one with a sub-item: two units,
\* both with the second entry's publish time.
C9_Witness ==
    /\ bpc # "idle" /\ Len(postList) = 2
    /\ ~postList[1].hasAppMsg /\ postList[1].datetime = "1700000000"
    /\ postList[2].hasAppMsg /\ Len(postList[2].subs) = 1
    /\ postList[2].datetime = "1700086400"
    /\ Len(bposts) = 2
    /\ bposts[2].publishAt = "2023-11-15T22:13:20Z"

\* The (msgBiz, msgMid, msgIdx) in the query of the unit's link, unescaped.
LinkId(unit) == GetIdentifying(Escape2Html(unit.appMsg.content_url))

\* The units with a title and a link, by their place in posts, in order.
KeptUnits ==
    SelectSeq([i \in 1..Len(bposts) |-> i], LAMBDA i : ~UnitDropped(bposts[i]))

\* C10 as stated: no two elements of the returned list have the same
\* (msgBiz, msgMid, msgIdx), and each element has the one of its unit's link.
C10_Original ==
    bpc = "done" =>
       /\ \A m, n \in 1..Len(bret) : m # n => bret[m].key # bret[n].key
       /\ Len(bret) = Len(KeptUnits)
       /\ \A n \in 1..Len(bret) : bret[n].key = LinkId(bposts[KeptUnits[n]])

\* C10 amended: the returned list holds one saved Post per unit that has a
\* title and a link, in the order of the units, each under the (msgBiz,
\* msgMid, msgIdx) of its unit's unescaped link; two elements have the same
\* identity exactly when their units' links do.
C10_IdentityFromLink ==
    bpc = "done" =>
       /\ Len(bret) = Len(KeptUnits)
       /\ \A n \in 1..Len(bret) :
             /\ bret[n].state = "doc" /\ bret[n].doc.kind = "doc"
             /\ bret[n].key = LinkId(bposts[KeptUnits[n]])
       /\ \A m, n \in 1..Len(bret) :
             bret[m].key = bret[n].key <=>
                LinkId(bposts[KeptUnits[m]]) = LinkId(bposts[KeptUnits[n]])

\* Two units listed with "&amp;" in the same link came back as two elements
\* under K2, behind a unit that was dropped.
C10_Witness ==
    /\ bpc = "done" /\ Len(bposts) = 3 /\ UnitDropped(bposts[1])
    /\ Len(bret) = 2
    /\ bret[1].key = K2 /\ bret[2].key = K2
    /\ bposts[2].appMsg.content_url = "s?__biz=b1&amp;mid=m1&amp;idx=2"

\* ------------------------------------- claims, savePostsData and failures
\* The call has ended: it returned, or it rejected at line 83 or at line 110.
BatchEnded == bpc \in {"done", "rejected", "failed"}

\* C11: when the store rejects the upsert of one unit, the batch still has
\* its outcome: once the call has ended, every unit of the batch whose
\* upsert was carried out has its saved record in the list the call
\* returned and in the batch recorded in the publish history.
C11_SiblingsSurviveFailure ==
    /\ bpc \in {"done", "rejected"}
    /\ \E i \in 1..Len(bres) : bres[i].state = "rejected"
    => \A j \in 1..Len(bres) :
          bres[j].state = "doc" =>
             /\ \E n \in 1..Len(bret) : bret[n] = bres[j]
             /\ pubRecords # <<>>
             /\ \E n \in 1..Len(pubRecords[Len(pubRecords)]) :
                    pubRecords[Len(pubRecords)][n] = bres[j]

\* C12: when the profile lookup for the first saved unit fails, the call
\* still ends with the saved units recorded in the publish history and
\* returned.
C12_LookupFailureTolerated ==
    BatchEnded /\ fpc[BatchCaller] = "failed" =>
       /\ pubRecords # <<>>
       /\ pubRecords[Len(pubRecords)] = savedPosts
       /\ bret = savedPosts

\* ------------------------------------------ claims, getPostDetail (frame)
\* The last store operation the call has applied is a write of the Profile.
WroteProfile(ops) ==
    ops # <<>> /\ ops[Len(ops)].coll = "Profile" /\ ops[Len(ops)].op = "write"

\* C13: no step of a getPostDetail running alone changes a Profile that has
\* wechatId, username and headimg, title included, and the call issues no
\* write to the Profile of its biz when that one has the three.
C13_CompleteProfileUntouched ==
    [][/\ \A b \in Bizs : ProfileFilled(profiles[b]) => profiles'[b] = profiles[b]
       /\ \A c \in DetailCalls :
             dwrites'[c] # dwrites[c] /\ ProfileFilled(profiles[did[c].msgBiz]) =>
                ~WroteProfile(dwrites'[c])]_vars

\* The call found a Profile with the three fields and no title, the document
\* carried a nickname and another wechatId, the Post was written, and the
\* Profile is as it was found.
C13_Witness ==
    \E c \in DetailCalls :
        /\ dpc[c] = "done"
        /\ ProfileFilled(dprofile[c]) /\ dprofile[c].title = Absent
        /\ dbody[c].nickname = "n1" /\ dbody[c].span = "w1" /\ dbody[c].headimg = "h1"
        /\ PostFindOne(posts, did[c]).title = "t1"
        /\ profiles[did[c].msgBiz] = dprofile[c]

\* ------------------------------------- claims, getPostDetail overlapping
\* C14: whatever the interleaving of the getPostDetail calls on an article,
\* once its Post has title, link and wechatId no step of any of the calls
\* changes one of the three.
C14_CompleteStaysUnderRace ==
    [][\A c \in DetailCalls :
          LET before == PostFindOne(posts, did[c])
              after == PostFindOne(posts', did[c])
          IN  dpc[c] # "idle" /\ Filled(before) =>
                 /\ after.title = before.title
                 /\ after.link = before.link
                 /\ after.wechatId = before.wechatId]_vars

\* ------------------------------------------------ claims, find and failure
\* A backing query for biz is in flight: its leader awaits line 42 or is
\* about to resume from it.
InFlight(biz) == \E l \in FindCallers : fbiz[l] = biz /\ fpc[l] \in {"query", "replied"}

\* C15: a key's waiter list exists only while a backing query for the key
\* is in flight, and a follower is suspended only on such a key, so that
\* the end of the query, whatever its outcome, releases it.
C15_WaitersOnlyWhileInFlight ==
    \A biz \in Bizs :
        /\ profileWaitingMap[biz].has => InFlight(biz)
        /\ \A c \in FindCallers : fpc[c] = "waiting" /\ fbiz[c] = biz => InFlight(biz)

\* ------------------------------------------ claims, savePostsData (frame)
BulkFields ==
    {"title", "link", "publishAt", "cover", "digest", "sourceUrl", "author", "copyrightStat"}

\* What the listing says of a field of the unit's article.
Listed(unit, f) ==
    CASE f = "title" -> Escape2Html(unit.appMsg.title)
      [] f = "link" -> Escape2Html(unit.appMsg.content_url)
      [] f = "publishAt" -> unit.publishAt
      [] f = "cover" -> unit.appMsg.cover
      [] f = "digest" -> unit.appMsg.digest
      [] f = "sourceUrl" -> unit.appMsg.source_url
      [] f = "author" -> unit.appMsg.author
      [] f = "copyrightStat" -> unit.appMsg.copyright_stat

\* C18: the step that carries out the upsert of a unit leaves a Post under
\* the (msgBiz, msgMid, msgIdx) of the unit's link, holding what the listing
\* gives for title, link, publishAt, cover, digest, sourceUrl, author and
\* copyrightStat; no other field of that Post and no other Post changes,
\* and the Profile store is as it was.
C18_BulkWriteFrame ==
    [][\A i \in 1..Len(bres) :
          bres[i].state = "pending" /\ bres'[i].state = "doc" =>
             LET key == LinkId(bposts[i])
             IN  /\ key \in DOMAIN posts'
                 /\ posts'[key].kind = "doc"
                 /\ \A f \in BulkFields :
                       Listed(bposts[i], f) # Absent => posts'[key][f] = Listed(bposts[i], f)
                 /\ PostDiff(posts, posts', key) \subseteq BulkFields
                 /\ OtherPostsSame(posts, posts', key)
                 /\ profiles' = profiles]_vars

\* A listed unit was merged into the full Post of K1: the listing's title
\* and digest next to the wechatId, markup and flags it had; and a unit
\* created the Post of K2.
C18_Witness ==
    /\ \E i \in 1..Len(bres) : bres[i].state = "doc" /\ bres[i].key = K1
    /\ \E i \in 1..Len(bres) : bres[i].state = "doc" /\ bres[i].key = K2
    /\ K1 \in DOMAIN posts /\ K2 \in DOMAIN posts
    /\ posts[K1].title = "News" /\ posts[K1].digest = "dg"
    /\ posts[K1].wechatId = "w0" /\ posts[K1].html = "<p>0</p>"
    /\ posts[K1].viewed = "true" /\ posts[K1].imported = "true"
    /\ posts[K2].title = "Q&A" /\ posts[K2].wechatId = Absent

\* ------------------------------------ claims, getPostDetail (unresolved)
\* The link is empty or its query lacks one of __biz, mid, idx.
Unresolvable(link) ==
    \/ link = Absent
    \/ \E name \in {"__biz", "mid", "idx"} : QueryParam(link, name) = Absent

\* C19: every step of a getPostDetail call whose link is empty or does not
\* give all of msgBiz, msgMid, msgIdx leaves the Post and Profile stores as
\* they are and applies no store operation; the call goes from the entry
\* to the identity resolution at most, and from there returns.
C19_UnresolvedTouchesNothing ==
    [][\A c \in DetailCalls :
          dpc'[c] # dpc[c] /\ Unresolvable(dlink'[c]) =>
             /\ dpc'[c] \in {"identify", "done"}
             /\ posts' = posts
             /\ profiles' = profiles
             /\ dwrites'[c] = <<>>]_vars

\* A call on a link without idx has returned; the stores hold the article
\* of its biz and mid under idx 1, untouched, and nothing was read.
C19_Witness ==
    \E c \in DetailCalls :
        /\ dpc[c] = "done"
        /\ dlink[c] = "s?__biz=b1&mid=m1"
        /\ did[c] = PostKey("b1", "m1", Absent)
        /\ dwrites[c] = <<>>
        /\ K1 \in DOMAIN posts /\ posts[K1] = Keyed(K1, FullPost)

\* ------------------------------------ claims, savePostsData (filtering)
\* The unit's title or link is missing or empty.
Malformed(unit) == unit.appMsg.title = "" \/ unit.appMsg.content_url = ""

\* The places in units of the well-formed units, in order.
WellFormed(units) ==
    SelectSeq([i \in 1..Len(units) |-> i], LAMBDA i : ~Malformed(units[i]))

\* The saved records of the well-formed units, in the order of the units.
SavedOfWellFormed(units, res) ==
    [n \in 1..Len(WellFormed(units)) |-> res[WellFormed(units)[n]]]

\* C20: a unit without title or link never has a store update in flight or
\* applied and never fails: its place in the results stays empty.  Every
\* change of the Post store is the update of a well-formed unit.  The batch
\* recorded in the publish history and the list returned are the saved
\* records of the well-formed units, in their order, as for the listing
\* without the other units.
C20_MalformedUnitIgnored ==
    [][/\ \A i \in 1..Len(bposts') :
             Malformed(bposts'[i]) => bres'[i].state = "undefined"
       /\ posts' # posts =>
             \E i \in 1..Len(bposts) :
                /\ ~Malformed(bposts[i])
                /\ bres[i].state = "pending" /\ bres'[i].state = "doc"
                /\ OtherPostsSame(posts, posts', LinkId(bposts[i]))
       /\ bpc = "recording" /\ bpc' = "llen" =>
             /\ pubRecords' = Append(pubRecords, SavedOfWellFormed(bposts, bres))
             /\ \A n \in 1..Len(savedPosts) : savedPosts[n].state = "doc"
       /\ bpc' = "done" => bret' = SavedOfWellFormed(bposts', bres')]_vars

\* A listing of a unit without title, a unit without link and a well-formed
\* unit on K1 was processed: one record returned and recorded, K1 written.
C20_Witness ==
    /\ bpc = "done" /\ Len(bposts) = 3
    /\ bposts[1].appMsg.title = "" /\ bposts[1].appMsg.content_url # ""
    /\ bposts[2].appMsg.content_url = "" /\ bposts[2].appMsg.title # ""
    /\ ~Malformed(bposts[3])
    /\ Len(bret) = 1 /\ bret[1].key = K1
    /\ pubRecords = <<bret>>
    /\ DOMAIN posts = {K1} /\ posts[K1].title = "News"

\* ------------------------------------------------------ claims, ingestion
\* C17: whatever savePostsData and getPostDetail calls follow and however
\* they interleave, no step changes or removes the isFail of a Post whose
\* isFail is true.
C17_FailIsTerminal ==
    [][\A k \in DOMAIN posts :
          posts[k].isFail = "true" =>
             /\ k \in DOMAIN posts'
             /\ posts'[k].isFail = "true"]_vars

\* The Post of K1 is marked failed and carries what a listing and a valid
\* fetch have written: the listing's author, the fetch's wechatId and markup.
C17_Witness ==
    /\ K1 \in DOMAIN posts
    /\ posts[K1].isFail = "true"
    /\ posts[K1].author = "au"
    /\ posts[K1].wechatId = "w1"
    /\ posts[K1].html = "<p>1</p>"
    /\ bpc = "done"
    /\ \E c \in DetailCalls : dpc[c] = "done" /\ ~dbody[c].invalid

\* ------------------------------------------------- claims, the stores' keys
\* The (msgBiz, msgMid, msgIdx) a Post document carries.
Identity(doc) == PostKey(doc.msgBiz, doc.msgMid, doc.msgIdx)

\* The biz of the Profile documents of the store.
ProfileBizs(store) == {b \in DOMAIN store : store[b].kind = "doc"}

\* C16: however savePostsData, getPostDetail and upsertPosts interleave,
\* every step leaves every Post and Profile document in its store, with the
\* (msgBiz, msgMid, msgIdx), respectively the msgBiz, it had, and leaves no
\* two Posts with the same (msgBiz, msgMid, msgIdx) and no two Profiles
\* with the same msgBiz.
C16_KeysUniqueAndStable ==
    [][/\ \A k \in DOMAIN posts :
             /\ k \in DOMAIN posts'
             /\ posts'[k].kind = "doc"
             /\ Identity(posts'[k]) = Identity(posts[k])
       /\ \A k1, k2 \in DOMAIN posts' :
             k1 # k2 => Identity(posts'[k1]) # Identity(posts'[k2])
       /\ \A b \in ProfileBizs(profiles) :
             /\ b \in ProfileBizs(profiles')
             /\ profiles'[b].msgBiz = profiles[b].msgBiz
       /\ \A b1, b2 \in ProfileBizs(profiles') :
             b1 # b2 => profiles'[b1].msgBiz # profiles'[b2].msgBiz]_vars

\* The three operations have all written the article K1: the listing's
\* author, the fetch's markup and the record's title are in the one Post
\* under K1, next to the Post of K2 and the Profile of b1.
C16_Witness ==
    /\ bpc = "done" /\ upc = "done" /\ dpc["d1"] = "done"
    /\ DOMAIN posts = {K1, K2}
    /\ Identity(posts[K1]) = K1 /\ Identity(posts[K2]) = K2
    /\ posts[K1].author = "au"
    /\ posts[K1].html = "<p>1</p>"
    /\ posts[K1].title = "x1"
    /\ profiles["b1"].kind = "doc" /\ profiles["b1"].msgBiz = "b1"

====
